---------------------------- MODULE Spec2Model ----------------------------
(***************************************************************************)
(* Model of OrderTranslator (src/streamlit_app.py): translate_text,        *)
(* format_uw_instructions and the process_orders pipeline.                 *)
(*                                                                         *)
(* A Python str is a sequence of tokens.  A token is one character ("a",   *)
(* " ") or one indivisible piece of text: a number of a date ("2025",      *)
(* "7"), a column name, an order id, or one of the literals of the source  *)
(* (the template lines of format_uw_instructions, "[Translation Failed] ").*)
(* The Chinese literals of the source are written in pinyin.               *)
(***************************************************************************)
EXTENDS Integers, Sequences, FiniteSets, TLC

(***************************************************************************)
(* Bounds of the model                                                     *)
(***************************************************************************)
\* longest source sheet (rows under the header) whose rows are drawn freely
MaxRows == 2
\* calls of one method in one behaviour
MaxCalls == 2

(***************************************************************************)
(* str helpers                                                             *)
(***************************************************************************)
SP == " "
NL == "\n"

RECURSIVE LStrip(_)
LStrip(s) == IF s # <<>> /\ Head(s) \in {SP, NL} THEN LStrip(Tail(s)) ELSE s

RECURSIVE RStrip(_)
RStrip(s) ==
    IF s # <<>> /\ s[Len(s)] \in {SP, NL} THEN RStrip(SubSeq(s, 1, Len(s) - 1)) ELSE s

\* str.strip()
Strip(s) == RStrip(LStrip(s))

Max2(a, b) == IF a >= b THEN a ELSE b
Min2(a, b) == IF a <= b THEN a ELSE b

(***************************************************************************)
(* Date Parser: datetime.strptime under the four formats of line 216       *)
(***************************************************************************)
\* the numeric tokens a date cell may hold, with their values
NumTok ==
    ("1" :> 1) @@ ("2" :> 2) @@ ("6" :> 6) @@ ("7" :> 7) @@ ("13" :> 13) @@
    ("20" :> 20) @@ ("30" :> 30) @@ ("2025" :> 2025)

IsNum(t) == t \in DOMAIN NumTok
\* %Y: four digits
IsYear(t) == IsNum(t) /\ NumTok[t] >= 1000 /\ NumTok[t] <= 9999
\* %m and %d: one or two digits
IsShort(t) == IsNum(t) /\ NumTok[t] <= 99

IsLeap(y) == (y % 4 = 0 /\ y % 100 # 0) \/ y % 400 = 0

DaysIn(y, m) ==
    IF m = 2 THEN (IF IsLeap(y) THEN 29 ELSE 28)
    ELSE IF m \in {4, 6, 9, 11} THEN 30 ELSE 31

\* "no date": review_date = None
NoDate == 0

\* a datetime at midnight, as the number yyyymmdd (ordered as the dates are)
MkDate(y, m, d) ==
    IF m \in 1..12 /\ d >= 1 /\ d <= DaysIn(y, m) THEN y * 10000 + m * 100 + d ELSE NoDate

\* strptime(s, fmt); NoDate stands for ValueError
Strptime(s, fmt) ==
    IF Len(s) # 5 THEN NoDate
    ELSE CASE fmt = "%Y/%m/%d" ->
                IF s[2] = "/" /\ s[4] = "/" /\ IsYear(s[1]) /\ IsShort(s[3]) /\ IsShort(s[5])
                THEN MkDate(NumTok[s[1]], NumTok[s[3]], NumTok[s[5]]) ELSE NoDate
           [] fmt = "%Y-%m-%d" ->
                IF s[2] = "-" /\ s[4] = "-" /\ IsYear(s[1]) /\ IsShort(s[3]) /\ IsShort(s[5])
                THEN MkDate(NumTok[s[1]], NumTok[s[3]], NumTok[s[5]]) ELSE NoDate
           [] fmt = "%m/%d/%Y" ->
                IF s[2] = "/" /\ s[4] = "/" /\ IsYear(s[5]) /\ IsShort(s[1]) /\ IsShort(s[3])
                THEN MkDate(NumTok[s[5]], NumTok[s[1]], NumTok[s[3]]) ELSE NoDate
           [] fmt = "%d/%m/%Y" ->
                IF s[2] = "/" /\ s[4] = "/" /\ IsYear(s[5]) /\ IsShort(s[1]) /\ IsShort(s[3])
                THEN MkDate(NumTok[s[5]], NumTok[s[3]], NumTok[s[1]]) ELSE NoDate
           [] OTHER -> NoDate

\* the formats, in the order the loop of line 216 tries them
DateFormats == <<"%Y/%m/%d", "%Y-%m-%d", "%m/%d/%Y", "%d/%m/%Y">>

RECURSIVE ParseFrom(_, _)
ParseFrom(s, k) ==
    IF k > Len(DateFormats) THEN NoDate
    ELSE IF Strptime(s, DateFormats[k]) # NoDate THEN Strptime(s, DateFormats[k])
    ELSE ParseFrom(s, k + 1)

\* lines 213-221: the first format that parses wins
ParseDate(s) == ParseFrom(s, 1)

(***************************************************************************)
(* Field Resolver: lines 178-198                                           *)
(***************************************************************************)
\* the keys of column_map, in the dict's (insertion) order
Keys == <<"date", "order_id", "need_call", "review_details", "call_content", "review_advice">>

\* column_map: each key's accepted header names, in priority order
column_map ==
    [date           |-> << <<"ShenHeRiQi">>, <<"RiQi">> >>,
     order_id       |-> << <<"DingDanBianHao">>, <<"DingDanHao">> >>,
     need_call      |-> << <<"ShiFouXuYaoDianHe">>, <<"XuYaoDianHe">> >>,
     review_details |-> << <<"ShenHeXiangQing">>, <<"XiangQing">> >>,
     call_content   |-> << <<"XuYaoDianHeDeNeiRong">>, <<"DianHeNeiRong">> >>,
     review_advice  |-> << <<"XinShenShenHeYiJian">>, <<"XinShenYiJian">> >>]

\* list.index(name), 0-based; -1 stands for ValueError
ListIndex(headers, name) ==
    IF \E j \in 1..Len(headers) : headers[j] = name
    THEN (CHOOSE j \in 1..Len(headers) :
              headers[j] = name /\ \A k \in 1..(j - 1) : headers[k] # name) - 1
    ELSE -1

RECURSIVE FirstMatch(_, _, _)
FirstMatch(headers, names, k) ==
    IF k > Len(names) THEN -1
    ELSE IF ListIndex(headers, names[k]) # -1 THEN ListIndex(headers, names[k])
    ELSE FirstMatch(headers, names, k + 1)

\* lines 189-195: indices[key]
ResolveKey(headers, key) == FirstMatch(headers, column_map[key], 1)

ResolveAll(headers) == [key \in {Keys[k] : k \in 1..Len(Keys)} |-> ResolveKey(headers, key)]

\* the lookup with the last key taken as optional
MissingKeysButLast(headers) ==
    {k \in 1..(Len(Keys) - 1) : FirstMatch(headers, column_map[Keys[k]], 1) = -1}

\* the keys that resolve to -1, as positions of Keys
MissingKeys(headers) == {k \in 1..Len(Keys) : ResolveKey(headers, Keys[k]) = -1}

\* lines 188-198 return at the first key, in dict order, that is unresolved
FirstMissing(headers) ==
    CHOOSE k \in MissingKeys(headers) : \A j \in MissingKeys(headers) : k <= j

\* max(indices.values())
MaxIndex(idx) == CHOOSE m \in {idx[k] : k \in DOMAIN idx} : \A k \in DOMAIN idx : idx[k] <= m

\* row[indices[key]]: Python indexes from 0
Cell(row, idx, key) == row[idx[key] + 1]

(***************************************************************************)
(* Row Filter: lines 204-227                                               *)
(***************************************************************************)
\* the cutoff taken as exclusive
KeepsRowAfter(row, idx, cutoff) ==
    /\ ~(Len(row) <= MaxIndex(idx))
    /\ ParseDate(Cell(row, idx, "date")) > cutoff

\* lines 209-223 for one row
KeepsRow(row, idx, cutoff) ==
    /\ ~(Len(row) <= MaxIndex(idx))
    /\ ParseDate(Cell(row, idx, "date")) # NoDate
    /\ ParseDate(Cell(row, idx, "date")) >= cutoff

RECURSIVE FilterRows(_, _, _)
FilterRows(rows, idx, cutoff) ==
    IF rows = <<>> THEN <<>>
    ELSE (IF KeepsRow(Head(rows), idx, cutoff) THEN <<Head(rows)>> ELSE <<>>)
         \o FilterRows(Tail(rows), idx, cutoff)

(***************************************************************************)
(* Translation Client: translate_text, lines 95-119                        *)
(***************************************************************************)
\* None, where the source passes no str
None == <<"<None>">>

\* Python truthiness of an Optional[str]
Truthy(s) == s # None /\ s # <<>>

FailedPrefix == "[Translation Failed] "

\* what openai.ChatCompletion.create may do with a request for `text`:
\*   ok           a response with "usage" whose content is the translation,
\*                padded with whitespace the caller has to strip
\*   blank        a response with "usage" whose content is whitespace only
\*   no_usage     a response without a "usage" entry
\*   bad_response a response with "usage" whose choices[0].message.content
\*                cannot be read (the attribute access of line 115 raises)
\*   error        the call raises (network, quota)
ReplyKinds == {"ok", "blank", "no_usage", "bad_response", "error"}

\* the text the service answers with
ReplyContent(kind, text) ==
    IF kind = "blank" THEN <<SP, NL>> ELSE <<SP, "en:">> \o Strip(text) \o <<NL>>

\* response["usage"]["total_tokens"]
TotalTokens(text) == Len(text) + 2

\* the early return without its strip() test
IsFalsyInput(text) == ~Truthy(text)

\* line 97: the early return, before any request
IsBlankInput(text) == ~Truthy(text) \/ Strip(text) = <<>>

\* translate_text losing the original text when the service fails
TranslateTextBareMarker(text, kind) ==
    IF IsBlankInput(text)
    THEN [result |-> <<>>, issued |-> FALSE, tokens |-> 0]
    ELSE CASE kind \in {"error", "bad_response"} ->
                [result |-> <<FailedPrefix>>, issued |-> TRUE,
                 tokens |-> IF kind = "error" THEN 0 ELSE TotalTokens(text)]
           [] kind = "no_usage" ->
                [result |-> Strip(ReplyContent(kind, text)), issued |-> TRUE, tokens |-> 0]
           [] OTHER ->
                [result |-> Strip(ReplyContent(kind, text)), issued |-> TRUE,
                 tokens |-> TotalTokens(text)]

\* translate_text(text) when the service answers `kind`:
\* the returned str, whether a request was issued, the tokens added
TranslateText(text, kind) ==
    IF IsBlankInput(text)
    THEN [result |-> <<>>, issued |-> FALSE, tokens |-> 0]
    ELSE CASE kind = "error" ->
                [result |-> <<FailedPrefix>> \o text, issued |-> TRUE, tokens |-> 0]
           [] kind = "bad_response" ->
                [result |-> <<FailedPrefix>> \o text, issued |-> TRUE,
                 tokens |-> TotalTokens(text)]
           [] kind = "no_usage" ->
                [result |-> Strip(ReplyContent(kind, text)), issued |-> TRUE, tokens |-> 0]
           [] OTHER ->
                [result |-> Strip(ReplyContent(kind, text)), issued |-> TRUE,
                 tokens |-> TotalTokens(text)]

(***************************************************************************)
(* Instruction Formatter: format_uw_instructions, lines 121-134            *)
(***************************************************************************)
UwHeader == "=== THE APPROVAL RESULT SHALL BE PROVIDED AFTER RISK INVESTIGATION.@UW ==="
CallBanner == "=== NEED TO CALL AND CONFIRM THE FOLLOWING QUESTIONS: ==="
AdviceTrailer == "=== REVIEW ADVICE: ==="
NoCallContent == "[No call content]"
NoContent == "[No content]"
NoAdvice == "[No advice]"

\* the fallback of an empty text forgotten
StripOnly(x, placeholder) == IF x = None THEN <<placeholder>> ELSE Strip(x)

\* (x.strip() if x else placeholder)
StripOr(x, placeholder) == IF Truthy(x) THEN Strip(x) ELSE <<placeholder>>

\* the banner written whatever need_call is
format_with_banner(call_content, review_advice, need_call) ==
    <<UwHeader, NL>>
    \o <<CallBanner, NL, NL>> \o StripOr(call_content, NoCallContent) \o <<NL, NL>>
    \o <<AdviceTrailer, NL>>
    \o StripOr(review_advice, NoAdvice)

format_uw_instructions(call_content, review_advice, need_call) ==
    <<UwHeader, NL>>
    \o (IF need_call
        THEN <<CallBanner, NL, NL>> \o StripOr(call_content, NoCallContent) \o <<NL, NL>>
        ELSE StripOr(call_content, NoContent) \o <<NL, NL>>)
    \o <<AdviceTrailer, NL>>
    \o StripOr(review_advice, NoAdvice)

\* line 288: row[indices['need_call']] in ['shi', 'YES', 'yes']
NeedCall(cell) == cell \in {<<"shi">>, <<"YES">>, <<"yes">>}

(***************************************************************************)
(* State                                                                   *)
(***************************************************************************)
VARIABLES
    source,              \* get_all_values() of the source worksheet
    max_daily_orders,    \* st.secrets app_settings (line 140)
    target,              \* the destination worksheet
    usage_stats,         \* self.usage_stats
    pc,                  \* where process_orders stands ("idle": not running)
    cutoff_date,         \* process_orders' argument
    indices,             \* locals of process_orders
    filtered_orders,
    processed_data,
    row_i,               \* current_order: rows of filtered_orders visited so far
    translated_details,
    translated_call,
    translated_advice,
    batch_num,
    today,
    result,              \* what process_orders returned
    api_calls,           \* requests this run sent to the translation service
    target_ops,          \* calls this run made on the destination worksheet
    entry,               \* usage_stats when this run was entered
    threw,               \* positions of filtered_orders whose try block raised
    outcomes,            \* what the collaborators did in this run, in order
    prev,                \* how the previous run ended
    faults_left,         \* collaborator failures the behaviour may still see
    fault_kinds,         \* which collaborators may fail
    may_rerun,           \* whether the caller calls process_orders again
    calls,               \* calls of the object's methods so far
    tcall,               \* the last translate_text call
    fcall,               \* the last format_uw_instructions call
    fprev                \* the format_uw_instructions call before it

run_locals ==
    <<cutoff_date, indices, filtered_orders, processed_data, row_i, translated_details,
      translated_call, translated_advice, batch_num, today>>
env_vars == <<source, max_daily_orders, fault_kinds, may_rerun>>
fmt_vars == <<fcall, fprev>>
vars ==
    <<source, max_daily_orders, target, usage_stats, pc, cutoff_date, indices,
      filtered_orders, processed_data, row_i, translated_details, translated_call,
      translated_advice, batch_num, today, result, api_calls, target_ops, entry, threw,
      outcomes, prev, faults_left, fault_kinds, may_rerun, calls, tcall, fcall, fprev>>

(***************************************************************************)
(* The source sheets and settings a behaviour may start from               *)
(***************************************************************************)
KeySet == {Keys[k] : k \in 1..Len(Keys)}

\* the header of the scenario of the specification, and one made of the second
\* synonyms, in another order, behind a column process_orders does not read
CanonHeader == [k \in 1..Len(Keys) |-> column_map[Keys[k]][1]]
AltHeader ==
    << <<"BeiZhu">>, column_map.order_id[2], column_map.date[2], column_map.need_call[2],
       column_map.review_details[2], column_map.call_content[2], column_map.review_advice[2] >>

\* the key a header name stands for ("" for none)
KeyOf(name) ==
    IF \E key \in KeySet : \E k \in 1..Len(column_map[key]) : column_map[key][k] = name
    THEN CHOOSE key \in KeySet : \E k \in 1..Len(column_map[key]) : column_map[key][k] = name
    ELSE ""

\* `headers` without the columns of the keys in K
RECURSIVE WithoutKeys(_, _)
WithoutKeys(headers, K) ==
    IF headers = <<>> THEN <<>>
    ELSE (IF KeyOf(Head(headers)) \in K THEN <<>> ELSE <<Head(headers)>>)
         \o WithoutKeys(Tail(headers), K)

\* the kinds of order a source row may hold
OrderKinds ==
    { \* every field filled, date in the first format
      [date |-> <<"2025", "/", "7", "/", "1">>, need_call |-> <<"shi">>,
       review_details |-> <<"a">>, call_content |-> <<SP, "b">>,
       review_advice |-> <<"c", SP>>, cut |-> FALSE],
      \* on the later cutoff, second format; empty and whitespace-only fields
      [date |-> <<"2025", "-", "6", "-", "20">>, need_call |-> <<"fou">>,
       review_details |-> <<>>, call_content |-> <<SP>>,
       review_advice |-> <<"c">>, cut |-> FALSE],
      \* month/day or day/month: 2 January as %m/%d/%Y, 1 February as %d/%m/%Y
      [date |-> <<"1", "/", "2", "/", "2025">>, need_call |-> <<"yes">>,
       review_details |-> <<"a">>, call_content |-> <<>>,
       review_advice |-> <<>>, cut |-> FALSE],
      \* only %d/%m/%Y parses it: 13 June, between the two cutoffs
      [date |-> <<"13", "/", "6", "/", "2025">>, need_call |-> <<"Yes">>,
       review_details |-> <<"a">>, call_content |-> <<"b">>,
       review_advice |-> <<>>, cut |-> FALSE],
      \* 30 February: no format parses it
      [date |-> <<"2025", "/", "2", "/", "30">>, need_call |-> <<"shi">>,
       review_details |-> <<"a">>, call_content |-> <<"b">>,
       review_advice |-> <<"c">>, cut |-> FALSE],
      \* a row that ends before its last resolved column
      [date |-> <<"2025", "/", "7", "/", "1">>, need_call |-> <<"shi">>,
       review_details |-> <<"a">>, call_content |-> <<"b">>,
       review_advice |-> <<"c">>, cut |-> TRUE] }

Cutoffs == {20250115, 20250620}

OrderId(n) == <<"ORD", ToString(n)>>

\* the n-th row of a sheet under `headers`, holding an order of kind `o`
RowOf(headers, o, n) ==
    LET full == [j \in 1..Len(headers) |->
                    IF KeyOf(headers[j]) = "" THEN <<"note">>
                    ELSE IF KeyOf(headers[j]) = "order_id" THEN OrderId(n)
                    ELSE o[KeyOf(headers[j])]]
    IN  IF o.cut THEN SubSeq(full, 1, Len(headers) - 1) ELSE full

SheetOf(headers, kinds) ==
    <<headers>> \o [n \in 1..Len(kinds) |-> RowOf(headers, kinds[n], n)]

KindSeqs(n) == UNION {[1..m -> OrderKinds] : m \in 0..n}

\* the sheets whose rows are drawn freely
SmallSheets == {SheetOf(CanonHeader, ks) : ks \in KindSeqs(MaxRows)}

FullOrder == CHOOSE o \in OrderKinds : o.need_call = <<"shi">> /\ ~o.cut /\ ParseDate(o.date) # NoDate

\* the empty sheet, and one row under every header that lacks columns
HeaderSheets ==
    {<<>>} \cup
    {SheetOf(WithoutKeys(h, K), <<FullOrder>>) : h \in {CanonHeader, AltHeader}, K \in SUBSET KeySet}

\* line 331
batch_size == 20
\* line 140: the default of max_daily_orders
default_max_daily_orders == 500
\* collaborator failures in one behaviour over a small sheet
MaxFaults == 2

\* sheets long enough for one full batch, one row more, and two batches and a row
LongLens == {batch_size, batch_size + 1, 2 * batch_size + 1}
LongSheets == {SheetOf(CanonHeader, [n \in 1..m |-> FullOrder]) : m \in LongLens}

\* what a destination worksheet left by an earlier use holds
StaleRow == << <<"old">>, <<"old">>, <<"old">>, <<"old">>, <<"old">> >>
NoTarget == [exists |-> FALSE, values |-> <<>>, bold |-> FALSE, wrap |-> FALSE]
StaleTarget(n) ==
    [exists |-> TRUE, values |-> [k \in 1..n |-> StaleRow], bold |-> FALSE, wrap |-> FALSE]

NoIndices == [key \in KeySet |-> -1]
NoResult == [status |-> "none", success |-> FALSE, message |-> <<>>, count |-> 0, total_found |-> 0]
NoCall == [called |-> FALSE, text |-> <<>>, reply |-> "ok", result |-> <<>>, issued |-> FALSE, tokens |-> 0]
NoFormat == [called |-> FALSE, call_content |-> <<>>, review_advice |-> <<>>, need_call |-> FALSE, result |-> <<>>]
NoPrev == [status |-> "none", success |-> FALSE, cutoff_date |-> NoDate, outcomes |-> <<>>, values |-> <<>>]

\* __init__ (lines 24-27), before any call
InitObject ==
    /\ usage_stats = [orders_processed |-> 0, tokens_used |-> 0]
    /\ pc = "idle"
    /\ cutoff_date = NoDate
    /\ indices = NoIndices
    /\ filtered_orders = <<>>
    /\ processed_data = <<>>
    /\ row_i = 0
    /\ translated_details = <<>>
    /\ translated_call = <<>>
    /\ translated_advice = <<>>
    /\ batch_num = 0
    /\ today = ""
    /\ result = NoResult
    /\ api_calls = 0
    /\ target_ops = 0
    /\ entry = usage_stats
    /\ threw = {}
    /\ outcomes = <<>>
    /\ prev = NoPrev
    /\ calls = 0
    /\ tcall = NoCall
    /\ fcall = NoFormat
    /\ fprev = NoFormat

\* a sheet whose two orders both pass either cutoff: one with every field
\* filled, one with an empty and a whitespace-only field
BlankOrder == CHOOSE o \in OrderKinds : o.review_details = <<>> /\ ~o.cut
FaultSheet == SheetOf(CanonHeader, <<FullOrder, BlankOrder>>)

\* a sheet one of whose orders passes the earlier cutoff only
MidOrder == CHOOSE o \in OrderKinds : ParseDate(o.date) \in (20250115 + 1)..(20250620 - 1)
RerunSheet == SheetOf(CanonHeader, <<MidOrder, BlankOrder>>)

\* one call of process_orders, every collaborator working: over every small
\* sheet and every header
InitRows ==
    /\ \/ source \in SmallSheets /\ max_daily_orders \in {1, MaxRows}
       \/ source \in HeaderSheets /\ max_daily_orders = default_max_daily_orders
    /\ fault_kinds = {}
    /\ faults_left = 0
    /\ may_rerun = FALSE

\* one call, over one sheet, any collaborator failing
InitFaults ==
    /\ source = FaultSheet
    /\ max_daily_orders \in {1, default_max_daily_orders}
    /\ fault_kinds = {"ui", "api", "sheet"}
    /\ faults_left = MaxFaults
    /\ may_rerun = FALSE

\* one call, over the long sheets, the spreadsheet service failing
InitLong ==
    /\ source \in LongSheets
    /\ max_daily_orders = default_max_daily_orders
    /\ fault_kinds = {"sheet"}
    /\ faults_left = MaxFaults
    /\ may_rerun = FALSE

InitTarget == target \in {NoTarget, StaleTarget(Len(source) + 2)}

Init ==
    /\ InitObject
    /\ InitRows \/ InitFaults \/ InitLong
    /\ InitTarget

\* process_orders called again and again over one sheet, the translation
\* service failing
InitRerun ==
    /\ InitObject
    /\ source = RerunSheet
    /\ max_daily_orders = default_max_daily_orders
    /\ fault_kinds = {"api"}
    /\ faults_left = MaxFaults
    /\ may_rerun = TRUE
    /\ InitTarget

(***************************************************************************)
(* The collaborators' failures                                             *)
(***************************************************************************)
MayFail(kind) == kind \in fault_kinds /\ faults_left > 0

\* one more entry in this run's record of what the collaborators did
Noted(what) == Append(outcomes, what)

(***************************************************************************)
(* process_orders, lines 153-368                                           *)
(***************************************************************************)
\* the dict a return statement builds
Failure(message) ==
    [status |-> "returned", success |-> FALSE, message |-> message, count |-> 0,
     total_found |-> 0]

\* worksheet.update('A{start_row}:E{..}', rows)
Update(values, start_row, rows) ==
    [k \in 1..Max2(Len(values), start_row + Len(rows) - 1) |->
        IF k >= start_row /\ k < start_row + Len(rows) THEN rows[k - start_row + 1]
        ELSE IF k <= Len(values) THEN values[k] ELSE <<>>]

\* line 259
headers_row ==
    << <<"Review Date">>, <<"Order ID">>, <<"Review Details">>, <<"UW Instructions">>,
       <<"Processing Date">> >>

\* the days a run may take place on, in order
Days == <<"2026-11-01", "2026-11-02">>

\* a call that starts its counters afresh
ProcessOrdersBeginFresh ==
    /\ pc = "idle"
    /\ calls < MaxCalls
    /\ calls = 0 \/ may_rerun
    /\ \E cutoff \in Cutoffs : cutoff_date' = cutoff
    /\ calls' = calls + 1
    /\ pc' = "read"
    /\ indices' = NoIndices
    /\ filtered_orders' = <<>>
    /\ processed_data' = <<>>
    /\ row_i' = 0
    /\ translated_details' = <<>>
    /\ translated_call' = <<>>
    /\ translated_advice' = <<>>
    /\ batch_num' = 0
    /\ result' = NoResult
    /\ api_calls' = 0
    /\ target_ops' = 0
    /\ usage_stats' = [orders_processed |-> 0, tokens_used |-> 0]
    /\ entry' = usage_stats'
    /\ threw' = {}
    /\ outcomes' = <<>>
    /\ UNCHANGED <<env_vars, target, today, prev, faults_left, tcall, fmt_vars>>

\* the call: process_orders(cutoff)
ProcessOrdersBegin ==
    /\ pc = "idle"
    /\ calls < MaxCalls
    /\ calls = 0 \/ may_rerun
    /\ \E cutoff \in Cutoffs : cutoff_date' = cutoff
    /\ calls' = calls + 1
    /\ pc' = "read"
    /\ indices' = NoIndices
    /\ filtered_orders' = <<>>
    /\ processed_data' = <<>>
    /\ row_i' = 0
    /\ translated_details' = <<>>
    /\ translated_call' = <<>>
    /\ translated_advice' = <<>>
    /\ batch_num' = 0
    /\ result' = NoResult
    /\ api_calls' = 0
    /\ target_ops' = 0
    /\ entry' = usage_stats
    /\ threw' = {}
    /\ outcomes' = <<>>
    /\ UNCHANGED <<env_vars, target, usage_stats, today, prev, faults_left, tcall, fmt_vars>>

\* what every step of a run leaves alone
RunFrame == UNCHANGED <<env_vars, cutoff_date, entry, prev, calls, fmt_vars>>

\* lines 162-172
ReadSource ==
    /\ pc = "read"
    /\ IF source = <<>>
       THEN /\ result' = Failure(<<"BiaoGeMeiYouShuJu">>)
            /\ pc' = "done"
       ELSE /\ pc' = "resolve"
            /\ UNCHANGED result
    /\ RunFrame
    /\ UNCHANGED <<target, usage_stats, indices, filtered_orders, processed_data, row_i,
                   translated_details, translated_call, translated_advice, batch_num, today,
                   api_calls, target_ops, threw, outcomes, faults_left, tcall>>

\* lines 175-198
ResolveColumns ==
    /\ pc = "resolve"
    /\ IF MissingKeys(Head(source)) # {}
       THEN /\ result' = Failure(<<"ZhaoBuDaoLie: ">>
                                 \o column_map[Keys[FirstMissing(Head(source))]][1])
            /\ pc' = "done"
            /\ UNCHANGED indices
       ELSE /\ indices' = ResolveAll(Head(source))
            /\ pc' = "filter"
            /\ UNCHANGED result
    /\ RunFrame
    /\ UNCHANGED <<target, usage_stats, filtered_orders, processed_data, row_i,
                   translated_details, translated_call, translated_advice, batch_num, today,
                   api_calls, target_ops, threw, outcomes, faults_left, tcall>>

\* lines 201-230
FilterStage ==
    /\ pc = "filter"
    /\ filtered_orders' = FilterRows(Tail(source), indices, cutoff_date)
    /\ IF filtered_orders' = <<>>
       THEN /\ result' = Failure(<<"MeiYouZhaoDaoDingDan">>)
            /\ pc' = "done"
       ELSE /\ pc' = "limits"
            /\ UNCHANGED result
    /\ RunFrame
    /\ UNCHANGED <<target, usage_stats, indices, processed_data, row_i,
                   translated_details, translated_call, translated_advice, batch_num, today,
                   api_calls, target_ops, threw, outcomes, faults_left, tcall>>

\* the cap taken as exclusive
OverLimitInclusive(n, limit) == n >= limit

\* the test of line 238
OverLimit(n, limit) == n > limit

\* lines 233-242
CheckLimits ==
    /\ pc = "limits"
    /\ IF OverLimit(Len(filtered_orders), max_daily_orders)
       THEN /\ result' = Failure(<<"DingDanShuLiangChaoGuoMeiRiXianZhi">>)
            /\ pc' = "done"
       ELSE /\ pc' = "prepare"
            /\ UNCHANGED result
    /\ RunFrame
    /\ UNCHANGED <<target, usage_stats, indices, filtered_orders, processed_data, row_i,
                   translated_details, translated_call, translated_advice, batch_num, today,
                   api_calls, target_ops, threw, outcomes, faults_left, tcall>>

\* a clear() that leaves the values where they are
Kept(ws) == ws

\* worksheet.clear(): the values go, the formatting stays
Cleared(ws) == [ws EXCEPT !.values = <<>>]

\* spreadsheet.add_worksheet(...)
Added == [exists |-> TRUE, values |-> <<>>, bold |-> FALSE, wrap |-> FALSE]

\* lines 245-256
PrepareTarget ==
    /\ pc = "prepare"
    /\ target' = IF target.exists THEN Cleared(target) ELSE Added
    /\ target_ops' = target_ops + 1
    /\ pc' = "header"
    /\ RunFrame
    /\ UNCHANGED <<usage_stats, indices, filtered_orders, processed_data, row_i,
                   translated_details, translated_call, translated_advice, batch_num, today,
                   result, api_calls, threw, outcomes, faults_left, tcall>>

\* lines 258-260
WriteHeader ==
    /\ pc = "header"
    /\ target' = [target EXCEPT !.values = Update(target.values, 1, <<headers_row>>)]
    /\ target_ops' = target_ops + 1
    /\ pc' = "start_loop"
    /\ RunFrame
    /\ UNCHANGED <<usage_stats, indices, filtered_orders, processed_data, row_i,
                   translated_details, translated_call, translated_advice, batch_num, today,
                   result, api_calls, threw, outcomes, faults_left, tcall>>

\* the day of the previous run (as a position of Days), 1 before the first
DayNow == IF today = "" THEN 1 ELSE CHOOSE d \in 1..Len(Days) : Days[d] = today

\* the first run is on the first day, a later one on the same day or after it
RunDays == IF today = "" THEN {1} ELSE DayNow..Len(Days)

\* lines 262-268
StartLoop ==
    /\ pc = "start_loop"
    /\ processed_data' = <<>>
    /\ \E d \in RunDays : today' = Days[d]
    /\ pc' = "row"
    /\ RunFrame
    /\ UNCHANGED <<target, usage_stats, indices, filtered_orders, row_i,
                   translated_details, translated_call, translated_advice, batch_num,
                   result, api_calls, target_ops, threw, outcomes, faults_left, tcall>>

\* the row the loop is at
CurrentRow == filtered_orders[row_i]

\* a loop left after its first row
AfterRowBreak == "save"

\* where the loop goes after a row: the next row, or past the loop
AfterRow == IF row_i < Len(filtered_orders) THEN "row" ELSE "save"

\* lines 270-288: the loop takes the next row
RowBegin ==
    /\ pc = "row"
    /\ row_i' = row_i + 1
    /\ translated_details' = <<>>
    /\ translated_call' = <<>>
    /\ translated_advice' = <<>>
    /\ pc' = "t_details"
    /\ RunFrame
    /\ UNCHANGED <<target, usage_stats, indices, filtered_orders, processed_data, batch_num,
                   today, result, api_calls, target_ops, threw, outcomes, faults_left, tcall>>

\* one translate_text call of the loop, on `text`, the service answering `kind`
TranslateStep(text, kind) ==
    /\ kind \in ReplyKinds
    /\ IsBlankInput(text) => kind = "ok"
    /\ kind # "ok" => MayFail("api")
    /\ LET r == TranslateText(text, kind)
       IN  /\ usage_stats' = [usage_stats EXCEPT !.tokens_used = @ + r.tokens]
           /\ api_calls' = api_calls + (IF r.issued THEN 1 ELSE 0)
           /\ tcall' = [called |-> TRUE, text |-> text, reply |-> kind, result |-> r.result,
                        issued |-> r.issued, tokens |-> r.tokens]
           /\ outcomes' = Noted(IF r.issued THEN kind ELSE "no request")
    /\ faults_left' = IF kind # "ok" THEN faults_left - 1 ELSE faults_left
    /\ RunFrame
    /\ UNCHANGED <<target, indices, filtered_orders, processed_data, row_i, batch_num, today,
                   result, target_ops, threw>>

\* lines 291-294
TranslateDetails ==
    /\ pc = "t_details"
    /\ \E kind \in ReplyKinds :
          /\ TranslateStep(Cell(CurrentRow, indices, "review_details"), kind)
          /\ translated_details' =
                 TranslateText(Cell(CurrentRow, indices, "review_details"), kind).result
    /\ pc' = "t_call"
    /\ UNCHANGED <<translated_call, translated_advice>>

\* lines 296-299
TranslateCall ==
    /\ pc = "t_call"
    /\ \E kind \in ReplyKinds :
          /\ TranslateStep(Cell(CurrentRow, indices, "call_content"), kind)
          /\ translated_call' =
                 TranslateText(Cell(CurrentRow, indices, "call_content"), kind).result
    /\ pc' = "t_advice"
    /\ UNCHANGED <<translated_details, translated_advice>>

\* lines 301-304
TranslateAdvice ==
    /\ pc = "t_advice"
    /\ \E kind \in ReplyKinds :
          /\ TranslateStep(Cell(CurrentRow, indices, "review_advice"), kind)
          /\ translated_advice' =
                 TranslateText(Cell(CurrentRow, indices, "review_advice"), kind).result
    /\ pc' = "finish"
    /\ UNCHANGED <<translated_details, translated_call>>

\* lines 307-313: the record of the current row
Record ==
    << Cell(CurrentRow, indices, "date"),
       Cell(CurrentRow, indices, "order_id"),
       translated_details,
       format_uw_instructions(translated_call, translated_advice,
                              NeedCall(Cell(CurrentRow, indices, "need_call"))),
       <<today>> >>

\* lines 311-315
AppendRecord ==
    /\ processed_data' = Append(processed_data, Record)
    /\ usage_stats' = [usage_stats EXCEPT !.orders_processed = @ + 1]

\* lines 306-318: the row completes
FinishRow ==
    /\ pc = "finish"
    /\ AppendRecord
    /\ pc' = AfterRow
    /\ RunFrame
    /\ UNCHANGED <<target, indices, filtered_orders, row_i, translated_details,
                   translated_call, translated_advice, batch_num, today, result, api_calls,
                   target_ops, threw, outcomes, faults_left, tcall>>

\* lines 306-320: status_container.success (line 318) raises, inside the try
\* block and after the record was appended and counted
FinishRowStatusRaises ==
    /\ pc = "finish"
    /\ MayFail("ui")
    /\ AppendRecord
    /\ threw' = threw \cup {row_i}
    /\ outcomes' = Noted("status raised after append")
    /\ faults_left' = faults_left - 1
    /\ pc' = "row_failed"
    /\ RunFrame
    /\ UNCHANGED <<target, indices, filtered_orders, row_i, translated_details,
                   translated_call, translated_advice, batch_num, today, result, api_calls,
                   target_ops, tcall>>

\* status_container.info of lines 292, 297, 302 raises, inside the try block
RowStatusRaises ==
    /\ pc \in {"t_details", "t_call", "t_advice"}
    /\ MayFail("ui")
    /\ threw' = threw \cup {row_i}
    /\ outcomes' = Noted("status raised in row")
    /\ faults_left' = faults_left - 1
    /\ pc' = "row_failed"
    /\ RunFrame
    /\ UNCHANGED <<target, usage_stats, indices, filtered_orders, processed_data, row_i,
                   translated_details, translated_call, translated_advice, batch_num, today,
                   result, api_calls, target_ops, tcall>>

\* lines 320-323: the handler of the row's try block warns and continues
RowFailed ==
    /\ pc = "row_failed"
    /\ pc' = AfterRow
    /\ RunFrame
    /\ UNCHANGED <<target, usage_stats, indices, filtered_orders, processed_data, row_i,
                   translated_details, translated_call, translated_advice, batch_num, today,
                   result, api_calls, target_ops, threw, outcomes, faults_left, tcall>>

\* lines 325-332
SaveStage ==
    /\ pc = "save"
    /\ batch_num' = 0
    /\ pc' = IF processed_data # <<>> THEN "batch" ELSE "report"
    /\ RunFrame
    /\ UNCHANGED <<target, usage_stats, indices, filtered_orders, processed_data, row_i,
                   translated_details, translated_call, translated_advice, today,
                   result, api_calls, target_ops, threw, outcomes, faults_left, tcall>>

\* the first batch written over the header row
StartRowOverHeader(b) == b * batch_size + 1

\* line 332
TotalBatches(n) == (n + batch_size - 1) \div batch_size
\* lines 335-340 for batch b of n records
StartIdx(b) == b * batch_size
EndIdx(b, n) == Min2((b + 1) * batch_size, n)
StartRow(b) == StartIdx(b) + 2
Batch(data, b) == SubSeq(data, StartIdx(b) + 1, EndIdx(b, Len(data)))
EndRow(data, b) == StartRow(b) + Len(Batch(data, b)) - 1

\* lines 334-346: one turn of the batch loop
WriteBatch ==
    /\ pc = "batch"
    /\ target' = [target EXCEPT
                     !.values = Update(@, StartRow(batch_num), Batch(processed_data, batch_num))]
    /\ target_ops' = target_ops + 1
    /\ batch_num' = batch_num + 1
    /\ pc' = IF batch_num + 1 < TotalBatches(Len(processed_data)) THEN "batch" ELSE "format"
    /\ RunFrame
    /\ UNCHANGED <<usage_stats, indices, filtered_orders, processed_data, row_i,
                   translated_details, translated_call, translated_advice, today,
                   result, api_calls, threw, outcomes, faults_left, tcall>>

\* lines 348-352
FormatTarget ==
    /\ pc = "format"
    /\ target' = [target EXCEPT !.bold = TRUE, !.wrap = TRUE]
    /\ target_ops' = target_ops + 2
    /\ pc' = "report"
    /\ RunFrame
    /\ UNCHANGED <<usage_stats, indices, filtered_orders, processed_data, row_i,
                   translated_details, translated_call, translated_advice, batch_num, today,
                   result, api_calls, threw, outcomes, faults_left, tcall>>

\* lines 354-363
Report ==
    /\ pc = "report"
    /\ result' = [status |-> "returned", success |-> TRUE, message |-> <<"ChengGongChuLi">>,
                  count |-> Len(processed_data), total_found |-> Len(filtered_orders)]
    /\ pc' = "done"
    /\ RunFrame
    /\ UNCHANGED <<target, usage_stats, indices, filtered_orders, processed_data, row_i,
                   translated_details, translated_call, translated_advice, batch_num, today,
                   api_calls, target_ops, threw, outcomes, faults_left, tcall>>

\* the stages that open with a call on status_container (or progress_container)
\* outside the row's try block: lines 163, 176, 202, 234, 246, 263, 276-280,
\* 322, 327, 343, 350, 355
OuterStatusStages ==
    {"read", "resolve", "filter", "limits", "prepare", "start_loop", "row", "row_failed",
     "save", "batch", "format", "report"}

\* that call raises: control goes to the handler of line 365
OuterStatusRaises ==
    /\ pc \in OuterStatusStages
    /\ MayFail("ui")
    /\ outcomes' = Noted("status raised")
    /\ faults_left' = faults_left - 1
    /\ pc' = "except"
    /\ RunFrame
    /\ UNCHANGED <<target, usage_stats, indices, filtered_orders, processed_data, row_i,
                   translated_details, translated_call, translated_advice, batch_num, today,
                   result, api_calls, target_ops, threw, tcall>>

\* the stages whose first spreadsheet call may raise: lines 166-167, 249-256,
\* 260, 345, 351
SheetStages == {"read", "prepare", "header", "batch", "format"}

\* that call raises, having changed nothing
SheetCallRaises ==
    /\ pc \in SheetStages
    /\ MayFail("sheet")
    /\ outcomes' = Noted("sheet call raised")
    /\ faults_left' = faults_left - 1
    /\ target_ops' = target_ops + (IF pc = "read" THEN 0 ELSE 1)
    /\ pc' = "except"
    /\ RunFrame
    /\ UNCHANGED <<target, usage_stats, indices, filtered_orders, processed_data, row_i,
                   translated_details, translated_call, translated_advice, batch_num, today,
                   result, api_calls, threw, tcall>>

\* line 351 succeeds and line 352 raises
SecondFormatRaises ==
    /\ pc = "format"
    /\ MayFail("sheet")
    /\ target' = [target EXCEPT !.bold = TRUE]
    /\ target_ops' = target_ops + 2
    /\ outcomes' = Noted("sheet call raised")
    /\ faults_left' = faults_left - 1
    /\ pc' = "except"
    /\ RunFrame
    /\ UNCHANGED <<usage_stats, indices, filtered_orders, processed_data, row_i,
                   translated_details, translated_call, translated_advice, batch_num, today,
                   result, api_calls, threw, tcall>>

\* a handler that undoes the writes of the run
HandleExceptionRollback ==
    /\ pc = "except"
    /\ result' = Failure(<<"ChuLiShiBai">>)
    /\ target' = IF target.exists THEN Cleared(target) ELSE target
    /\ pc' = "done"
    /\ RunFrame
    /\ UNCHANGED <<usage_stats, indices, filtered_orders, processed_data, row_i,
                   translated_details, translated_call, translated_advice, batch_num, today,
                   api_calls, target_ops, threw, outcomes, faults_left, tcall>>

\* lines 365-368: the handler of the whole body
HandleException ==
    /\ pc = "except"
    /\ result' = Failure(<<"ChuLiShiBai">>)
    /\ pc' = "done"
    /\ RunFrame
    /\ UNCHANGED <<target, usage_stats, indices, filtered_orders, processed_data, row_i,
                   translated_details, translated_call, translated_advice, batch_num, today,
                   api_calls, target_ops, threw, outcomes, faults_left, tcall>>

\* line 367 raises inside the handler: the exception leaves process_orders
HandlerStatusRaises ==
    /\ pc = "except"
    /\ MayFail("ui")
    /\ result' = [NoResult EXCEPT !.status = "raised"]
    /\ outcomes' = Noted("status raised")
    /\ faults_left' = faults_left - 1
    /\ pc' = "done"
    /\ RunFrame
    /\ UNCHANGED <<target, usage_stats, indices, filtered_orders, processed_data, row_i,
                   translated_details, translated_call, translated_advice, batch_num, today,
                   api_calls, target_ops, threw, tcall>>

\* the caller has the outcome; the object is ready for its next call
ProcessOrdersEnd ==
    /\ pc = "done"
    /\ pc' = "idle"
    /\ prev' = [status |-> result.status, success |-> result.success,
                cutoff_date |-> cutoff_date, outcomes |-> outcomes,
                values |-> target.values]
    /\ UNCHANGED <<env_vars, target, usage_stats, run_locals, result, api_calls, target_ops,
                   entry, threw, outcomes, faults_left, calls, tcall, fmt_vars>>

\* the steps of a run whose collaborators work, the translation service apart
Step ==
    \/ ProcessOrdersBegin
    \/ ReadSource
    \/ ResolveColumns
    \/ FilterStage
    \/ CheckLimits
    \/ PrepareTarget
    \/ WriteHeader
    \/ StartLoop
    \/ RowBegin
    \/ TranslateDetails
    \/ TranslateCall
    \/ TranslateAdvice
    \/ FinishRow
    \/ SaveStage
    \/ WriteBatch
    \/ FormatTarget
    \/ Report
    \/ ProcessOrdersEnd

\* a status callback or a spreadsheet call raises, and the handlers' steps
Raise ==
    \/ FinishRowStatusRaises
    \/ RowStatusRaises
    \/ RowFailed
    \/ OuterStatusRaises
    \/ SheetCallRaises
    \/ SecondFormatRaises
    \/ HandleException
    \/ HandlerStatusRaises

Next == Step \/ Raise

Spec == Init /\ [][Next]_vars

SpecRerun == InitRerun /\ [][Step]_vars

(***************************************************************************)
(* translate_text and format_uw_instructions called on their own           *)
(***************************************************************************)
\* the arguments the two methods are called with
TextInputs ==
    {None, <<>>, <<SP>>, <<SP, NL>>, <<"a">>, <<SP, "a", NL>>, <<"a", SP, "b">>, <<"a", NL, "b", SP>>}

\* the object right after construction, no sheet involved
InitCalls ==
    /\ InitObject
    /\ source = <<>>
    /\ max_daily_orders = default_max_daily_orders
    /\ target = NoTarget
    /\ fault_kinds = {"api"}
    /\ faults_left = 0
    /\ may_rerun = FALSE

\* translate_text(text), lines 95-119; api_calls counts every request
TranslateTextCall ==
    /\ pc = "idle"
    /\ calls < MaxCalls
    /\ calls' = calls + 1
    /\ \E text \in TextInputs, kind \in ReplyKinds :
          /\ IsBlankInput(text) => kind = "ok"
          /\ LET r == TranslateText(text, kind)
             IN  /\ usage_stats' = [usage_stats EXCEPT !.tokens_used = @ + r.tokens]
                 /\ api_calls' = api_calls + (IF r.issued THEN 1 ELSE 0)
                 /\ tcall' = [called |-> TRUE, text |-> text, reply |-> kind,
                              result |-> r.result, issued |-> r.issued, tokens |-> r.tokens]
    /\ UNCHANGED <<env_vars, target, pc, run_locals, result, target_ops, entry, threw,
                   outcomes, prev, faults_left, fmt_vars>>

\* format_uw_instructions(call_content, review_advice, need_call), lines 121-134
FormatCall ==
    /\ pc = "idle"
    /\ calls < MaxCalls
    /\ calls' = calls + 1
    /\ \E call_content \in TextInputs, review_advice \in TextInputs, need_call \in BOOLEAN :
          fcall' = [called |-> TRUE, call_content |-> call_content,
                    review_advice |-> review_advice, need_call |-> need_call,
                    result |-> format_uw_instructions(call_content, review_advice, need_call)]
    /\ fprev' = fcall
    /\ UNCHANGED <<env_vars, target, usage_stats, pc, run_locals, result, api_calls,
                   target_ops, entry, threw, outcomes, prev, faults_left, tcall>>

\* one object, used for process_orders runs and for translate_text calls in
\* any order, over a sheet of one order, any collaborator failing
InitUse ==
    /\ InitObject
    /\ source = SheetOf(CanonHeader, <<MidOrder>>)
    /\ max_daily_orders = default_max_daily_orders
    /\ fault_kinds = {"ui", "api", "sheet"}
    /\ faults_left = MaxFaults
    /\ may_rerun = TRUE
    /\ target = NoTarget

SpecUse == InitUse /\ [][Next \/ TranslateTextCall]_vars

SpecTranslate == InitCalls /\ [][TranslateTextCall]_vars

SpecFormat == InitCalls /\ [][FormatCall]_vars

(***************************************************************************)
(* What the claims are stated with                                         *)
(***************************************************************************)
\* a status callback or a spreadsheet call raised in this run
Raised ==
    \E k \in 1..Len(outcomes) :
        outcomes[k] \in {"status raised", "status raised in row",
                         "status raised after append", "sheet call raised"}

\* this run has touched neither the translation service, nor the destination
\* worksheet, nor usage_stats
NoSideEffects == api_calls = 0 /\ target_ops = 0 /\ usage_stats = entry

\* the stages of a run before the row filter has run
BeforeFilter == {"idle", "read", "resolve", "filter"}

\* the header row has a column for `key`
HasColumn(key) ==
    \E j \in 1..Len(Head(source)) : \E k \in 1..Len(column_map[key]) :
        Head(source)[j] = column_map[key][k]

\* the header row lacks a column for some key
LacksColumn == source # <<>> /\ \E key \in KeySet : ~HasColumn(key)

(***************************************************************************)
(* C1: a run whose Filtered Orders outnumber max_daily_orders never        *)
(* succeeds, returns a failure (unless a status callback raised), and has  *)
(* sent no translation request, made no call on the destination worksheet  *)
(* and left usage_stats as it found it; a run whose Filtered Orders are    *)
(* exactly max_daily_orders passes the check and, its collaborators        *)
(* working, ends in success with a record of every row written.            *)
(***************************************************************************)
C1_DailyCap ==
    /\ (pc \notin BeforeFilter /\ Len(filtered_orders) > max_daily_orders) =>
          /\ NoSideEffects
          /\ pc \in {"limits", "except", "done"}
          /\ pc = "done" => ~result.success
          /\ (pc = "done" /\ ~Raised) => result.status = "returned"
    /\ (pc = "done" /\ ~Raised /\ filtered_orders # <<>>
            /\ Len(filtered_orders) = max_daily_orders) =>
          /\ result.success
          /\ result.count = max_daily_orders
          /\ Len(target.values) = max_daily_orders + 1
          /\ usage_stats.orders_processed = entry.orders_processed + max_daily_orders

\* a run rejected by the cap, one order over it
C1_Witness ==
    /\ pc = "done"
    /\ Len(filtered_orders) = max_daily_orders + 1
    /\ result.status = "returned"
    /\ ~result.success
    /\ target.values # <<>>

\* a run at the cap that went through
C1_AtCap ==
    /\ pc = "done"
    /\ Len(filtered_orders) = max_daily_orders
    /\ result.success

(***************************************************************************)
(* C2: under a header row that lacks a column for one of the six keys, a   *)
(* run gets no further than the column lookup: it sends no translation     *)
(* request, makes no call on the destination worksheet, leaves usage_stats *)
(* alone, and returns a failure whose message names the first synonym of a *)
(* key that has no column.                                                 *)
(***************************************************************************)
C2_MissingColumn ==
    (pc # "idle" /\ LacksColumn) =>
       /\ pc \in {"read", "resolve", "except", "done"}
       /\ NoSideEffects
       /\ (pc = "done" /\ ~Raised) =>
             /\ result.status = "returned"
             /\ ~result.success
             /\ \E key \in KeySet :
                   /\ ~HasColumn(key)
                   /\ result.message = <<"ZhaoBuDaoLie: ">> \o column_map[key][1]

\* the scenario of the specification: "DingDanBianHao" alone is absent
C2_Witness ==
    /\ pc = "done"
    /\ source # <<>>
    /\ Head(source) = WithoutKeys(CanonHeader, {"order_id"})
    /\ result.message = <<"ZhaoBuDaoLie: ", "DingDanBianHao">>
    /\ target.values # <<>>

\* the stages of a run that follow the row filter
AfterFilter ==
    {"limits", "prepare", "header", "start_loop", "row", "t_details", "t_call", "t_advice",
     "finish", "row_failed", "save", "batch", "format", "report"}

\* the row filter has run in this run
Filtered ==
    \/ pc \in AfterFilter
    \/ pc = "done" /\ result.status = "returned"
          /\ result.message \in {<<"MeiYouZhaoDaoDingDan">>, <<"ChengGongChuLi">>,
                                 <<"DingDanShuLiangChaoGuoMeiRiXianZhi">>}

\* the row has a cell in every resolved column
Covers(row) == \A key \in KeySet : Len(row) > indices[key]

\* the row has a date cell
HasDateCell(row) == Len(row) > indices.date

\* format number k is the first that parses the cell, and gives d
FirstReadsAs(cell, k, d) ==
    /\ d # NoDate
    /\ Strptime(cell, DateFormats[k]) = d
    /\ \A j \in 1..(k - 1) : Strptime(cell, DateFormats[j]) = NoDate

\* the date of the row as the formats, tried in order, read it is on or after
\* the cutoff
OnOrAfterCutoff(row) ==
    \E k \in 1..Len(DateFormats) :
        /\ FirstReadsAs(row[indices.date + 1], k, Strptime(row[indices.date + 1], DateFormats[k]))
        /\ Strptime(row[indices.date + 1], DateFormats[k]) >= cutoff_date

\* some one of the four formats reads the row's date cell as a date on or after
\* the cutoff
SomeFormatOnOrAfterCutoff(row) ==
    /\ HasDateCell(row)
    /\ \E k \in 1..Len(DateFormats) :
          /\ Strptime(row[indices.date + 1], DateFormats[k]) # NoDate
          /\ Strptime(row[indices.date + 1], DateFormats[k]) >= cutoff_date

Qualifies(row) == Covers(row) /\ OnOrAfterCutoff(row)

\* the rows of `rows` that qualify, each once, in their order
RECURSIVE Qualifying(_)
Qualifying(rows) ==
    IF rows = <<>> THEN <<>>
    ELSE (IF Qualifies(Head(rows)) THEN <<Head(rows)>> ELSE <<>>) \o Qualifying(Tail(rows))

\* the same under the reading of the claim as stated
RECURSIVE QualifyingAsStated(_)
QualifyingAsStated(rows) ==
    IF rows = <<>> THEN <<>>
    ELSE (IF SomeFormatOnOrAfterCutoff(Head(rows)) THEN <<Head(rows)>> ELSE <<>>)
         \o QualifyingAsStated(Tail(rows))

(***************************************************************************)
(* C3, as stated: Filtered Orders are the source rows whose date cell some *)
(* one of the four formats parses to a date on or after the cutoff, each   *)
(* once, in source order.                                                  *)
(***************************************************************************)
C3_AsStated == Filtered => filtered_orders = QualifyingAsStated(Tail(source))

(***************************************************************************)
(* C3, amended: Filtered Orders are the source rows that have a cell in    *)
(* every resolved column and whose date cell, read by the first of the     *)
(* four formats (in the order tried) that parses it, is on or after the    *)
(* cutoff, each once, in source order; every other row is absent.          *)
(***************************************************************************)
C3_RowFilter == Filtered => filtered_orders = Qualifying(Tail(source))

\* a sheet of two rows, the first dated on the cutoff itself and kept, the
\* second not kept
C3_Witness ==
    /\ pc = "limits"
    /\ Len(source) = 3
    /\ filtered_orders = <<source[2]>>
    /\ ParseDate(source[2][indices.date + 1]) = cutoff_date

\* the stages of the processing loop, and the one right after it
LoopStages == {"row", "t_details", "t_call", "t_advice", "finish", "row_failed", "save"}

\* the rows of filtered_orders whose turn in the loop is over
Completed == IF pc \in {"t_details", "t_call", "t_advice", "finish"} THEN row_i - 1 ELSE row_i

\* the positions, in order, of the completed rows that did not raise
RECURSIVE Survivors(_)
Survivors(n) ==
    IF n = 0 THEN <<>>
    ELSE Survivors(n - 1) \o (IF n \in threw THEN <<>> ELSE <<n>>)

(***************************************************************************)
(* C4: throughout the processing loop, processed_data holds one five-field *)
(* record for every completed row of filtered_orders whose try block did   *)
(* not raise, in filtered order, and none for a row whose try block raised.*)
(***************************************************************************)
C4_BufferMatchesRows ==
    pc \in LoopStages =>
       /\ Len(processed_data) = Len(Survivors(Completed))
       /\ \A n \in 1..Len(processed_data) :
             /\ Len(processed_data[n]) = 5
             /\ n <= Len(Survivors(Completed)) =>
                   /\ processed_data[n][1] = filtered_orders[Survivors(Completed)[n]][indices.date + 1]
                   /\ processed_data[n][2] = filtered_orders[Survivors(Completed)[n]][indices.order_id + 1]

\* the loop in a run where no row raised: the first of two rows has its record
C4_LoopRunning ==
    /\ pc = "t_call"
    /\ row_i = 2
    /\ threw = {}
    /\ Len(processed_data) = 1

\* the text translate_text returns for `text` when the log of the run says
\* `outcome` of its call
Expected(text, outcome) ==
    IF outcome = "no request" THEN <<>>
    ELSE IF outcome \in {"error", "bad_response"} THEN <<FailedPrefix>> \o text
    ELSE IF outcome = "blank" THEN <<>>
    ELSE <<"en:">> \o Strip(text)

\* the record of row n of filtered_orders, given the outcomes of its three calls
ExpectedRecord(n) ==
    LET row == filtered_orders[n]
    IN  << row[indices.date + 1],
           row[indices.order_id + 1],
           Expected(row[indices.review_details + 1], outcomes[3 * n - 2]),
           format_uw_instructions(Expected(row[indices.call_content + 1], outcomes[3 * n - 1]),
                                  Expected(row[indices.review_advice + 1], outcomes[3 * n]),
                                  NeedCall(row[indices.need_call + 1])),
           <<today>> >>

\* the loop is over and in it only the translation service failed
LoopOverNoRaise ==
    /\ pc \in {"save", "batch", "format", "report", "done"}
    /\ ~Raised
    /\ filtered_orders # <<>>
    /\ Len(outcomes) = 3 * Len(filtered_orders)

(***************************************************************************)
(* C5: in a run where only the translation service fails, the loop ends    *)
(* with one record per row of filtered_orders; a field whose request       *)
(* failed holds the marker followed by the original text, the other fields *)
(* of the row hold what their own calls gave, and the run does not fail.   *)
(***************************************************************************)
C5_FailureIsolated ==
    /\ LoopOverNoRaise =>
          /\ Len(processed_data) = Len(filtered_orders)
          /\ \A n \in 1..Len(filtered_orders) : processed_data[n] = ExpectedRecord(n)
          /\ pc = "done" => result.success
    /\ (pc \in {"t_call", "t_advice", "finish"} /\ tcall.reply \in {"error", "bad_response"}
            /\ tcall.issued) =>
          tcall.result = <<FailedPrefix>> \o tcall.text

\* a finished run whose first row lost its first field to the service and had
\* the other two translated
C5_Witness ==
    /\ pc = "done"
    /\ result.success
    /\ Len(outcomes) >= 3
    /\ outcomes[1] = "error"
    /\ outcomes[2] = "ok"
    /\ outcomes[3] = "ok"
    /\ Len(processed_data) = Len(filtered_orders)
    /\ processed_data[1][3] = <<FailedPrefix>> \o filtered_orders[1][indices.review_details + 1]

\* empty, or made of whitespace only
Blank(text) == text # None /\ \A k \in 1..Len(text) : text[k] \in {SP, NL}

(***************************************************************************)
(* C6: a translate_text call on an empty or whitespace-only text returns   *)
(* the empty string, sends no request to the translation service and       *)
(* leaves usage_stats (tokens_used and orders_processed) as it was.        *)
(***************************************************************************)
C6_BlankInput ==
    [][(calls' = calls + 1 /\ Blank(tcall'.text)) =>
            /\ tcall'.result = <<>>
            /\ api_calls' = api_calls
            /\ usage_stats' = usage_stats]_vars

\* a whitespace-only call after a call that cost tokens
C6_Witness ==
    /\ tcall.called
    /\ tcall.text = <<SP, NL>>
    /\ tcall.result = <<>>
    /\ api_calls = 1
    /\ usage_stats.tokens_used > 0

\* where the review-advice trailer stands in a formatted text (0: nowhere)
TrailerAt(r) ==
    IF \E t \in 1..Len(r) : r[t] = AdviceTrailer
    THEN CHOOSE t \in 1..Len(r) : r[t] = AdviceTrailer /\ \A u \in 1..(t - 1) : r[u] # AdviceTrailer
    ELSE 0

\* where the call-content text starts: after the header line and, when the
\* banner follows the header, after the banner and its blank line
SlotStart(r) == IF Len(r) >= 3 /\ r[3] = CallBanner THEN 6 ELSE 3

\* the text between the header (and banner) and the blank line before the trailer
CallSlot(r) == SubSeq(r, SlotStart(r), TrailerAt(r) - 3)

\* the text after the trailer line
AdviceSlot(r) == SubSeq(r, TrailerAt(r) + 2, Len(r))

(***************************************************************************)
(* C7: the text format_uw_instructions returns starts with the header      *)
(* line, holds the review-advice trailer line after the call-content       *)
(* block, and holds the confirmation banner, right after the header and    *)
(* before the call-content text, exactly when need_call is true.           *)
(***************************************************************************)
C7_Layout ==
    fcall.called =>
       LET r == fcall.result
           t == TrailerAt(r)
       IN  /\ Len(r) >= 2
           /\ r[1] = UwHeader
           /\ r[2] = NL
           /\ t >= SlotStart(r) + 2
           /\ r[t - 2] = NL
           /\ r[t - 1] = NL
           /\ t < Len(r)
           /\ r[t + 1] = NL
           /\ fcall.need_call => /\ r[3] = CallBanner
                                 /\ r[4] = NL
                                 /\ r[5] = NL
                                 /\ t > 5
           /\ ~fcall.need_call => \A k \in 1..Len(r) : r[k] # CallBanner
           /\ Truthy(fcall.call_content) => CallSlot(r) = Strip(fcall.call_content)

\* two calls on the very same texts, without the banner and then with it
C7_Witness ==
    /\ fcall.called
    /\ fprev.called
    /\ fcall.need_call
    /\ ~fprev.need_call
    /\ fcall.call_content = <<>>
    /\ fprev.call_content = <<>>
    /\ fcall.review_advice = None
    /\ fprev.review_advice = None
    /\ fcall.result[3] = CallBanner
    /\ fprev.result[3] # CallBanner

\* missing (None) or empty
Missing(x) == x = None \/ x = <<>>

(***************************************************************************)
(* C8, as the spec states it: a missing or empty call-content text gives   *)
(* the same placeholder in the call-content slot whatever need_call is, a  *)
(* missing or empty review advice gives another placeholder in the advice  *)
(* slot, and neither slot is blank then.                                   *)
(***************************************************************************)
C8_AsStated ==
    fcall.called =>
       /\ Missing(fcall.call_content) =>
             /\ CallSlot(fcall.result) # <<>>
             /\ (fprev.called /\ Missing(fprev.call_content)) =>
                    CallSlot(fcall.result) = CallSlot(fprev.result)
       /\ Missing(fcall.review_advice) =>
             /\ AdviceSlot(fcall.result) # <<>>
             /\ Missing(fcall.call_content) => AdviceSlot(fcall.result) # CallSlot(fcall.result)
             /\ (fprev.called /\ Missing(fprev.review_advice)) =>
                    AdviceSlot(fcall.result) = AdviceSlot(fprev.result)

(***************************************************************************)
(* C8: a missing or empty call-content text gives "[No call content]" in   *)
(* the call-content slot when need_call is true and "[No content]" when it *)
(* is false; a missing or empty review advice gives "[No advice]" in the   *)
(* advice slot for both values of need_call; neither slot is blank then.   *)
(* A text that is not empty is stripped into its slot, so a text of        *)
(* whitespace only leaves its slot blank.                                  *)
(***************************************************************************)
C8_Placeholders ==
    fcall.called =>
       /\ Missing(fcall.call_content) =>
             CallSlot(fcall.result) =
                 (IF fcall.need_call THEN <<"[No call content]">> ELSE <<"[No content]">>)
       /\ Missing(fcall.review_advice) => AdviceSlot(fcall.result) = <<"[No advice]">>
       /\ ~Missing(fcall.call_content) => CallSlot(fcall.result) = Strip(fcall.call_content)
       /\ ~Missing(fcall.review_advice) => AdviceSlot(fcall.result) = Strip(fcall.review_advice)

\* two calls without call content nor advice, need_call false and then true
C8_Witness ==
    /\ fcall.called
    /\ fprev.called
    /\ Missing(fcall.call_content)
    /\ Missing(fprev.call_content)
    /\ Missing(fcall.review_advice)
    /\ fcall.need_call
    /\ ~fprev.need_call
    /\ CallSlot(fcall.result) # CallSlot(fprev.result)
    /\ AdviceSlot(fcall.result) = AdviceSlot(fprev.result)

\* the place in filtered_orders of the row a record was made from
RowOfRecord(rec) ==
    CHOOSE k \in 1..Len(filtered_orders) : filtered_orders[k][indices.order_id + 1] = rec[2]

(***************************************************************************)
(* C9: once k batches are written the destination holds the header row and *)
(* the first min(20k, N) records in rows 2.., and a batch is still due     *)
(* only while 20k < N: batch k writes rows 2+20k .. 1+min(20(k+1), N) and  *)
(* nothing else.  When process_orders returns success with N records the   *)
(* destination holds the five-column header in row 1 and the N records in  *)
(* rows 2..N+1, in the order of the filtered rows.                         *)
(***************************************************************************)
C9_BatchLayout ==
    LET N == Len(processed_data)
        written == IF 20 * batch_num < N THEN 20 * batch_num ELSE N
    IN  /\ pc = "batch" =>
              /\ 20 * batch_num < N
              /\ target.values = <<headers_row>> \o SubSeq(processed_data, 1, written)
        /\ pc = "format" => target.values = <<headers_row>> \o processed_data
        /\ (pc = "done" /\ result.success) =>
              /\ result.count = N
              /\ Len(target.values) = N + 1
              /\ target.values[1] = headers_row
              /\ Len(target.values[1]) = 5
              /\ \A n \in 1..N : target.values[n + 1] = processed_data[n]
              /\ \A n \in 1..N : \A m \in 1..N :
                    n < m => RowOfRecord(processed_data[n]) < RowOfRecord(processed_data[m])

\* a run that wrote two full batches and a third of one row
C9_Witness ==
    /\ pc = "done"
    /\ result.success
    /\ result.count = 41
    /\ batch_num = 3
    /\ Len(target.values) = 42

\* two sheets that differ in the processing date of their records at most
SameButDate(a, b) ==
    /\ Len(a) = Len(b)
    /\ \A k \in 1..Len(a) :
          IF k = 1 THEN a[k] = b[k]
          ELSE /\ Len(a[k]) = Len(b[k])
               /\ \A j \in 1..4 : a[k][j] = b[k][j]

(***************************************************************************)
(* C10: when process_orders has run twice in succession over the same      *)
(* source with the same cutoff and the same translation outcomes, the      *)
(* destination after the second run has the rows it had after the first,   *)
(* with the same content, the processing date aside, and holds nothing of  *)
(* what it held before the runs: the header and the records only.          *)
(***************************************************************************)
C10_Idempotent ==
    (/\ pc = "done"
     /\ prev.status = "returned"
     /\ prev.cutoff_date = cutoff_date
     /\ prev.outcomes = outcomes) =>
        /\ result.success = prev.success
        /\ SameButDate(prev.values, target.values)
        /\ result.success => Len(target.values) = 1 + result.count

\* a second run, on a later day, that met the same failed request as the first
C10_Witness ==
    /\ pc = "done"
    /\ calls = 2
    /\ prev.status = "returned"
    /\ prev.success
    /\ result.success
    /\ prev.cutoff_date = cutoff_date
    /\ prev.outcomes = outcomes
    /\ \E k \in 1..Len(outcomes) : outcomes[k] = "error"
    /\ Len(target.values) = 3
    /\ target.values # prev.values

\* the last thing the collaborators did in this run ("" when nothing is noted)
LastOutcome == IF outcomes = <<>> THEN "" ELSE outcomes[Len(outcomes)]

\* the run left the batch loop by an exception of a batch write: batch_num
\* batches were written before it; the handler's own status call may have
\* raised after it
BatchWriteRaised ==
    /\ pc \in {"except", "done"}
    /\ processed_data # <<>>
    /\ 20 * batch_num < Len(processed_data)
    /\ \/ LastOutcome = "sheet call raised"
       \/ /\ LastOutcome = "status raised"
          /\ result.status = "raised"
          /\ Len(outcomes) >= 2
          /\ outcomes[Len(outcomes) - 1] = "sheet call raised"

(***************************************************************************)
(* C11: when the write of a batch raises, the destination keeps the header *)
(* and the batches written before it, no later batch is written, the write *)
(* is not retried and no formatting directive is applied; the run, whose   *)
(* handler reports the error, returns success = false.  A run returns      *)
(* success = true only when no spreadsheet call raised: the destination    *)
(* then holds the header and every record, and the two formatting          *)
(* directives of a run that has records are applied.                       *)
(***************************************************************************)
C11_BatchFailure ==
    /\ BatchWriteRaised =>
          /\ target.values = <<headers_row>> \o SubSeq(processed_data, 1, 20 * batch_num)
          /\ target_ops = batch_num + 3
          /\ ~target.bold
          /\ ~target.wrap
          /\ pc = "done" => ~result.success
          /\ (pc = "done" /\ LastOutcome = "sheet call raised") =>
                /\ result.status = "returned"
                /\ result.count = 0
    /\ (pc = "done" /\ result.success) =>
          /\ \A k \in 1..Len(outcomes) : outcomes[k] # "sheet call raised"
          /\ target.values = <<headers_row>> \o processed_data
          /\ processed_data # <<>> => target.bold /\ target.wrap

\* the write of the third batch of 41 records raised: two batches stay
C11_Witness ==
    /\ pc = "done"
    /\ BatchWriteRaised
    /\ batch_num = 2
    /\ Len(processed_data) = 41
    /\ Len(target.values) = 41
    /\ result.status = "returned"
    /\ ~result.success

\* the stages at which process_orders is about to call translate_text
TranslateStages == {"t_details", "t_call", "t_advice"}

\* the stages of the loop over filtered_orders and the two around it
AroundLoop == {"start_loop", "row", "finish", "row_failed", "save"} \cup TranslateStages

(***************************************************************************)
(* C12, as the spec states it: no operation on the destination worksheet   *)
(* precedes a translation call of the run.                                 *)
(***************************************************************************)
C12_AsStated == pc \in TranslateStages => target_ops = 0

(***************************************************************************)
(* C12: in every run the destination is cleared or created and its header  *)
(* written after the limit check and before the first translation call;    *)
(* throughout the loop over the Filtered Orders the destination holds the  *)
(* header only and no further operation is made on it; the batches are     *)
(* written only once the loop has gone through every Filtered Order.       *)
(***************************************************************************)
C12_WriterOrder ==
    /\ pc \in {"read", "resolve", "filter", "limits", "prepare"} =>
          /\ target_ops = 0
          /\ api_calls = 0
          /\ outcomes \in {<<>>, <<"sheet call raised">>, <<"status raised">>}
    /\ pc = "header" => target_ops = 1 /\ api_calls = 0
    /\ pc \in AroundLoop =>
          /\ target_ops = 2
          /\ target.values = <<headers_row>>
          /\ batch_num = 0
    /\ pc \in {"batch", "format", "report"} =>
          /\ row_i = Len(filtered_orders)
          /\ target_ops >= 2
          /\ Len(target.values) >= 1
          /\ target.values[1] = headers_row

\* the third request of a run is about to be sent to the translation
\* service; the destination was cleared and holds its header already
C12_Witness ==
    /\ pc = "t_advice"
    /\ api_calls = 2
    /\ target_ops = 2
    /\ target.exists
    /\ target.values = <<headers_row>>
    /\ processed_data = <<>>

\* this step is one translate_text call: of the loop, or on its own
TranslateCallStep ==
    \/ pc \in TranslateStages /\ pc' \in {"t_call", "t_advice", "finish"}
    \/ pc = "idle" /\ pc' = "idle" /\ calls' = calls + 1

\* the last translate_text call returned the failure marker and the text
ReturnedMarker == tcall.result # <<>> /\ Head(tcall.result) = FailedPrefix

(***************************************************************************)
(* C13, as the spec states it: a translate_text call that added to         *)
(* tokens_used returned the model's trimmed text, neither the failure      *)
(* marker nor the empty string.                                            *)
(***************************************************************************)
C13_AsStated ==
    (tcall.called /\ tcall.tokens > 0) => (tcall.result # <<>> /\ ~ReturnedMarker)

(***************************************************************************)
(* C13: over any sequence of translate_text and process_orders calls on    *)
(* one object, orders_processed and tokens_used never decrease;            *)
(* orders_processed changes only in process_orders, by 1 with each record  *)
(* appended to the buffer; tokens_used changes only in a translate_text    *)
(* call whose request got a response carrying usage, by that response's    *)
(* total: also when the call then returns the failure marker because the   *)
(* reply could not be read, or the empty string because the reply was      *)
(* blank.  A call on a blank text, and a call whose request raised, leave  *)
(* it as it was.                                                           *)
(***************************************************************************)
C13_Counters ==
    [][LET op == usage_stats.orders_processed
           op2 == usage_stats'.orders_processed
           tk == usage_stats.tokens_used
           tk2 == usage_stats'.tokens_used
       IN  /\ op2 >= op
           /\ tk2 >= tk
           /\ op2 # op =>
                 /\ pc = "finish"
                 /\ op2 = op + 1
                 /\ tk2 = tk
                 /\ Len(processed_data') = Len(processed_data) + 1
           /\ (pc # "idle" /\ Len(processed_data') > Len(processed_data)) => op2 = op + 1
           /\ tk2 # tk =>
                 /\ TranslateCallStep
                 /\ tcall'.issued
                 /\ tcall'.reply \in {"ok", "blank", "bad_response"}
                 /\ tk2 = tk + TotalTokens(tcall'.text)
           /\ (TranslateCallStep /\ (~tcall'.issued \/ tcall'.reply \in {"error", "no_usage"})) =>
                 tk2 = tk
           /\ (TranslateCallStep /\ tcall'.issued /\ tcall'.reply \in {"ok", "blank", "bad_response"}) =>
                 tk2 > tk
      ]_vars

\* a second run under way, after a run and calls that added to both
\* counters, the last call having returned the marker and still cost tokens
C13_Witness ==
    /\ calls = 2
    /\ pc = "t_call"
    /\ usage_stats.orders_processed >= 1
    /\ tcall.reply = "bad_response"
    /\ tcall.tokens > 0
    /\ ReturnedMarker
    /\ usage_stats.tokens_used > entry.tokens_used
    /\ entry.tokens_used > 0

=============================================================================
